---- MODULE Spec2Model ----
(***************************************************************************)
(* UB_matrix.ipynb: the Busing-Levy orientation (UB) matrix of a four-     *)
(* circle diffractometer.  The notebook computes in IEEE floating point;   *)
(* here every real is a decimal fixed-point number, an integer counting    *)
(* millionths (Scale), every operation rounds to the nearest millionth,    *)
(* and the non-finite results of numpy (nan, +inf, -inf: what a division   *)
(* by zero or the square root of a negative number yields, with a warning  *)
(* and no exception) are the one absorbing value NonFinite.                *)
(***************************************************************************)
EXTENDS Integers, Sequences, FiniteSets, TLC

\* ------------------------------------------------------------------------
\* Fixed-point reals
\* ------------------------------------------------------------------------

Scale == 10^6
Half == 10^3            \* Half * Half = Scale
NonFinite == -(2^30)

Fx(units, millionths) == units * Scale + millionths

IsFinite(x) == x # NonFinite

Abs(x) == IF x < 0 THEN -x ELSE x

Sgn(x) == IF x < 0 THEN -1 ELSE IF x > 0 THEN 1 ELSE 0

Neg(x) == IF IsFinite(x) THEN -x ELSE NonFinite

Add(x, y) == IF IsFinite(x) /\ IsFinite(y) THEN x + y ELSE NonFinite

Sub(x, y) == IF IsFinite(x) /\ IsFinite(y) THEN x - y ELSE NonFinite

\* x*y/Scale rounded to nearest, computed in pieces that stay in range
MulAbs(x, y) ==
    LET x1 == x \div Half
        x0 == x % Half
        y1 == y \div Half
        y0 == y % Half
    IN  x1 * y1 + ((x1 * y0 + x0 * y1 + ((x0 * y0) \div Half) + (Half \div 2)) \div Half)

Mul(x, y) ==
    IF IsFinite(x) /\ IsFinite(y)
    THEN Sgn(x) * Sgn(y) * MulAbs(Abs(x), Abs(y))
    ELSE NonFinite

\* the next `digits` decimal digits of r/y, r < y
RECURSIVE FracDigits(_, _, _)
FracDigits(r, y, digits) ==
    IF digits = 0
    THEN IF 2 * r >= y THEN 1 ELSE 0
    ELSE ((10 * r) \div y) * 10^(digits - 1) + FracDigits((10 * r) % y, y, digits - 1)

DivAbs(x, y) == (x \div y) * Scale + FracDigits(x % y, y, 6)

\* numpy: a float division by zero warns and yields nan or +-inf
Div(x, y) ==
    IF IsFinite(x) /\ IsFinite(y) /\ y # 0
    THEN Sgn(x) * Sgn(y) * DivAbs(Abs(x), Abs(y))
    ELSE NonFinite

\* floor(y*y/Scale) and whether y*y <= x*Scale, without forming y*y
SqLeq(y, x) ==
    LET y1 == y \div Half
        y0 == y % Half
        hi == y1 * y1 + ((2 * y1 * y0 + ((y0 * y0) \div Half)) \div Half)
        lo == ((((2 * y1 * y0) % Half) * Half) + y0 * y0) % Scale
    IN  hi < x \/ (hi = x /\ lo = 0)

RECURSIVE SqrtBisect(_, _, _)
SqrtBisect(x, lo, hi) ==
    IF hi - lo <= 1
    THEN lo
    ELSE LET mid == (lo + hi) \div 2
         IN  IF SqLeq(mid, x) THEN SqrtBisect(x, mid, hi) ELSE SqrtBisect(x, lo, mid)

\* no root of a representable number exceeds this: (46339 * Half)^2 / Scale < 2^31
SqrtCap == (46340 - 1) * Half

\* np.sqrt: nan (and a warning) for a negative argument
Sqrt(x) ==
    IF IsFinite(x) /\ x >= 0
    THEN SqrtBisect(x, 0, (IF x <= Scale THEN Scale ELSE IF x < SqrtCap THEN x ELSE SqrtCap) + 1)
    ELSE NonFinite

\* ------------------------------------------------------------------------
\* trigonometry.sin / cos / arccos: angles in degrees
\* ------------------------------------------------------------------------

\* np.pi
Pi == Fx(3, 141593)

Real(n) == n * Scale

Deg(d) == d * Scale

Radians(d) == Div(Mul(d, Pi), Deg(180))

RoundDiv(x, d) == (2 * x + d) \div (2 * d)

\* x - x^3/3! + x^5/5! - ... : term k+1 = -term k * x^2 / ((n+1)(n+2))
RECURSIVE Series(_, _, _, _)
Series(term, x2, n, left) ==
    IF left = 0 \/ term = 0
    THEN 0
    ELSE term + Series(-RoundDiv(Mul(term, x2), (n + 1) * (n + 2)), x2, n + 2, left - 1)

SeriesTerms == 8

SinSeries(x) == Series(x, Mul(x, x), 1, SeriesTerms)

CosSeries(x) == Series(Scale, Mul(x, x), 0, SeriesTerms)

\* the sine of d degrees, 0 <= d <= 90
SinQuadrant(d) ==
    IF d <= Deg(45) THEN SinSeries(Radians(d)) ELSE CosSeries(Radians(Deg(90) - d))

SinReduced(d) ==
    IF d <= Deg(90) THEN SinQuadrant(d)
    ELSE IF d <= Deg(180) THEN SinQuadrant(Deg(180) - d)
    ELSE IF d <= Deg(270) THEN -SinQuadrant(d - Deg(180))
    ELSE -SinQuadrant(Deg(360) - d)

sin(d) == IF IsFinite(d) THEN SinReduced(d % Deg(360)) ELSE NonFinite

cos(d) == IF IsFinite(d) THEN SinReduced((d + Deg(90)) % Deg(360)) ELSE NonFinite

\* the angle in [lo, hi] degrees whose cosine is nearest x from above
RECURSIVE ArccosBisect(_, _, _)
ArccosBisect(x, lo, hi) ==
    IF hi - lo <= 1
    THEN IF cos(lo) - x <= x - cos(hi) THEN lo ELSE hi
    ELSE LET mid == (lo + hi) \div 2
         IN  IF cos(mid) = x THEN mid
             ELSE IF cos(mid) > x THEN ArccosBisect(x, mid, hi)
             ELSE ArccosBisect(x, lo, mid)

\* np.arccos: nan (and a warning) outside [-1, 1]
arccos(x) ==
    IF IsFinite(x) /\ Abs(x) <= Scale
    THEN IF x = Scale THEN 0
         ELSE IF x = -Scale THEN Deg(180)
         ELSE ArccosBisect(x, 0, Deg(180))
    ELSE NonFinite

\* ------------------------------------------------------------------------
\* numpy arrays: a vector is a sequence of 3 reals, a matrix a sequence of
\* 3 rows
\* ------------------------------------------------------------------------

Ix == 1..3

VecFinite(v) == \A i \in Ix : IsFinite(v[i])

MatFinite(m) == \A i \in Ix : VecFinite(m[i])

NonFiniteVec == [i \in Ix |-> NonFinite]

NonFiniteMat == [i \in Ix |-> NonFiniteVec]

Identity == [i \in Ix |-> [j \in Ix |-> IF i = j THEN Scale ELSE 0]]

Sum3(x, y, z) == Add(Add(x, y), z)

\* np.dot(v, w)
Dot(v, w) == Sum3(Mul(v[1], w[1]), Mul(v[2], w[2]), Mul(v[3], w[3]))

\* array * scalar, array / scalar
VecScale(v, k) == [i \in Ix |-> Mul(v[i], k)]

VecDiv(v, k) == [i \in Ix |-> Div(v[i], k)]

Max(x, y) == IF x >= y THEN x ELSE y

\* np.linalg.norm: the root of the sum of the squares.  The squares of a long
\* vector leave the fixed-point range, so such a vector is first divided by
\* its largest component.
Norm(v) ==
    IF ~VecFinite(v)
    THEN NonFinite
    ELSE LET m == Max(Abs(v[1]), Max(Abs(v[2]), Abs(v[3])))
         IN  IF m <= Real(25)
             THEN Sqrt(Dot(v, v))
             ELSE Mul(m, Sqrt(Dot(VecDiv(v, m), VecDiv(v, m))))

\* np.cross
Cross(v, w) ==
    << Sub(Mul(v[2], w[3]), Mul(v[3], w[2])),
       Sub(Mul(v[3], w[1]), Mul(v[1], w[3])),
       Sub(Mul(v[1], w[2]), Mul(v[2], w[1])) >>

\* .T
Transpose(m) == [i \in Ix |-> [j \in Ix |-> m[j][i]]]

Column(m, j) == [i \in Ix |-> m[i][j]]

\* np.dot(matrix, vector)
MatVec(m, v) == [i \in Ix |-> Dot(m[i], v)]

\* np.matmul
MatMul(m, n) == [i \in Ix |-> [j \in Ix |-> Dot(m[i], Column(n, j))]]

MatScale(m, k) == [i \in Ix |-> VecScale(m[i], k)]

\* the determinant by the first row
Det(m) ==
    Sum3(Mul(m[1][1], Sub(Mul(m[2][2], m[3][3]), Mul(m[2][3], m[3][2]))),
         Neg(Mul(m[1][2], Sub(Mul(m[2][1], m[3][3]), Mul(m[2][3], m[3][1])))),
         Mul(m[1][3], Sub(Mul(m[2][1], m[3][2]), Mul(m[2][2], m[3][1]))))

\* equal to within tol millionths, both finite
Near(x, y, tol) == IsFinite(x) /\ IsFinite(y) /\ Abs(x - y) <= tol

VecNear(v, w, tol) == \A i \in Ix : Near(v[i], w[i], tol)

MatNear(m, n, tol) == \A i \in Ix : VecNear(m[i], n[i], tol)

\* ------------------------------------------------------------------------
\* np.linalg.inv: LAPACK's elimination with partial pivoting on [m | I].
\* An exactly zero pivot is the one case in which numpy raises
\* (LinAlgError: Singular matrix); non-finite entries pass through.
\* ------------------------------------------------------------------------

Augment(m) == [i \in Ix |-> m[i] \o Identity[i]]

\* the row at or below k whose entry in column k is largest in magnitude
PivotRow(w, k) ==
    CHOOSE r \in k..3 :
        \A q \in k..3 : Abs(w[r][k]) > Abs(w[q][k]) \/ (Abs(w[r][k]) = Abs(w[q][k]) /\ r <= q)

SwapRows(w, k, r) == [i \in Ix |-> IF i = k THEN w[r] ELSE IF i = r THEN w[k] ELSE w[i]]

\* subtract from every other row its multiple of row k that clears column k
Eliminate(w, k) ==
    [i \in Ix |->
        IF i = k
        THEN w[i]
        ELSE LET f == Div(w[i][k], w[k][k])
             IN  [j \in 1..6 |-> IF j = k THEN 0 ELSE Sub(w[i][j], Mul(f, w[k][j]))]]

RECURSIVE Reduce(_, _)
Reduce(w, k) ==
    IF k > 3
    THEN [singular |-> FALSE, w |-> w]
    ELSE LET s == SwapRows(w, k, PivotRow(w, k))
         IN  IF s[k][k] = 0
             THEN [singular |-> TRUE, w |-> w]
             ELSE Reduce(Eliminate(s, k), k + 1)

\* [raised |-> TRUE] or [raised |-> FALSE, value |-> the inverse]
inv(m) ==
    IF ~MatFinite(m)
    THEN [raised |-> FALSE, value |-> NonFiniteMat]
    ELSE LET r == Reduce(Augment(m), 1)
         IN  IF r.singular
             THEN [raised |-> TRUE, value |-> NonFiniteMat]
             ELSE [raised |-> FALSE,
                   value |-> [i \in Ix |-> [j \in Ix |-> Div(r.w[i][j + 3], r.w[i][i])]]]

\* ------------------------------------------------------------------------
\* The notebook's functions
\* ------------------------------------------------------------------------

\* the unit vector of angles2cart
q_carterian_unit_vector(tth, th, chi, phi) ==
    LET omega == th - tth \div 2
    IN  << Sub(Mul(Mul(cos(omega), cos(chi)), cos(phi)), Mul(sin(omega), sin(phi))),
           Add(Mul(Mul(cos(omega), cos(chi)), sin(phi)), Mul(sin(omega), cos(phi))),
           Mul(cos(omega), sin(chi)) >>

\* a sign slipped in the first component
angles2cart_sign(tth, th, chi, phi, lam_) ==
    LET omega == th - tth \div 2
        unit == << Add(Mul(Mul(cos(omega), cos(chi)), cos(phi)), Mul(sin(omega), sin(phi))),
                   Add(Mul(Mul(cos(omega), cos(chi)), sin(phi)), Mul(sin(omega), cos(phi))),
                   Mul(cos(omega), sin(chi)) >>
    IN  VecDiv(VecScale(unit, Mul(4 * Pi, sin(tth \div 2))), lam_)

angles2cart(tth, th, chi, phi, lam_) ==
    VecDiv(VecScale(q_carterian_unit_vector(tth, th, chi, phi),
                    Mul(4 * Pi, sin(tth \div 2))),
           lam_)

\* the cross product left as long as it is
get_T_mat_raw_cross(vec1, vec2) ==
    LET t1 == VecDiv(vec1, Norm(vec1))
        t3 == Cross(vec1, vec2)
        t2 == Cross(t3, t1)
    IN  Transpose(<<t1, t2, t3>>)

get_T_mat(vec1, vec2) ==
    LET t1 == VecDiv(vec1, Norm(vec1))
        cross == Cross(vec1, vec2)
        t3 == VecDiv(cross, Norm(cross))
        t2 == Cross(t3, t1)
    IN  Transpose(<<t1, t2, t3>>)

\* T_ass not transposed
get_U_no_transpose(pos1, ass1, pos2, ass2, B_, lam_) ==
    LET T_pos == get_T_mat(angles2cart(pos1[1], pos1[2], pos1[3], pos1[4], lam_),
                           angles2cart(pos2[1], pos2[2], pos2[3], pos2[4], lam_))
        T_ass == get_T_mat(MatVec(B_, ass1), MatVec(B_, ass2))
    IN  MatMul(T_pos, T_ass)

\* T_pos * T_ass.T, the elementwise product, for np.matmul
get_U_elementwise(pos1, ass1, pos2, ass2, B_, lam_) ==
    LET T_pos == get_T_mat(angles2cart(pos1[1], pos1[2], pos1[3], pos1[4], lam_),
                           angles2cart(pos2[1], pos2[2], pos2[3], pos2[4], lam_))
        T_ass == get_T_mat(MatVec(B_, ass1), MatVec(B_, ass2))
    IN  [i \in Ix |-> [j \in Ix |-> Mul(T_pos[i][j], T_ass[j][i])]]

get_U(pos1, ass1, pos2, ass2, B_, lam_) ==
    LET T_pos == get_T_mat(angles2cart(pos1[1], pos1[2], pos1[3], pos1[4], lam_),
                           angles2cart(pos2[1], pos2[2], pos2[3], pos2[4], lam_))
        T_ass == get_T_mat(MatVec(B_, ass1), MatVec(B_, ass2))
    IN  MatMul(T_pos, Transpose(T_ass))

\* UB where its inverse belongs: the caller passes invUB, the body undoes it
get_HKL_not_inverted(position, invUB_, lam_) ==
    MatVec(inv(invUB_).value,
           angles2cart(position[1], position[2], position[3], position[4], lam_))

get_HKL(position, invUB_, lam_) ==
    MatVec(invUB_, angles2cart(position[1], position[2], position[3], position[4], lam_))

\* ------------------------------------------------------------------------
\* The notebook's inputs: the values written in the cells, and others of the
\* same kind
\* ------------------------------------------------------------------------

\* (a, b, c, alpha, beta, gamma)
NotebookCell == <<Fx(5, 811000), Fx(10, 70000), Fx(6, 628000), Deg(90), Fx(100, 700000), Deg(90)>>

CubicCell == <<Real(4), Real(4), Real(4), Deg(90), Deg(90), Deg(90)>>

HexagonalCell == <<Real(3), Real(3), Real(5), Deg(90), Deg(90), Deg(120)>>

\* alpha = beta = gamma = 0: the three axes coincide
FlatCell == <<Real(1), Real(1), Real(1), 0, 0, 0>>

\* no parallelepiped has three angles of 150 degrees: det M < 0
ImpossibleCell == <<Real(4), Real(4), Real(4), Deg(150), Deg(150), Deg(150)>>

Cells == {NotebookCell, CubicCell, HexagonalCell, FlatCell, ImpossibleCell}

NotebookLam == Fx(1, 239800)

Lams == {NotebookLam, Real(2)}

\* a reflection: its angular position (tth, th, chi, phi) and its assignment
Refl(tth, th, chi, phi, h, k, l) == [position |-> <<tth, th, chi, phi>>, assignment |-> <<Real(h), Real(k), Real(l)>>]

NotebookRefl1 == Refl(Fx(44, 758000), Fx(22, 379000), Deg(90), 0, 0, 0, 4)

NotebookRefl2 == Refl(Fx(55, 818500), Fx(14, 735500), Deg(90), 0, -1, 0, 5)

\* one more reflection per k, in general position
GeneralRefl(k) == Refl(Deg(30 + 10 * k), Deg(10 + 15 * k), Deg(25 * k), Deg(40 * k), k, 1, 1 - k)

NumGeneral == 2

Reflections ==
    { NotebookRefl1, NotebookRefl2,
      \* the cubic cell's (002), (200), (020) at lam = 2
      Refl(Deg(60), Deg(30), Deg(90), 0, 0, 0, 2),
      Refl(Deg(60), Deg(30), 0, 0, 2, 0, 0),
      Refl(Deg(60), Deg(30), 0, Deg(90), 0, 2, 0),
      \* along (002), assigned (001) and (200); along (200), assigned (004)
      Refl(Deg(60), Deg(30), Deg(90), 0, 0, 0, 1),
      Refl(Deg(60), Deg(30), Deg(90), 0, 2, 0, 0),
      Refl(Deg(60), Deg(30), 0, 0, 0, 0, 4),
      \* the direct beam, assigned (000)
      Refl(0, 0, 0, 0, 0, 0, 0) }
    \cup { GeneralRefl(k) : k \in 1..NumGeneral }

\* a Python float bound to a name that is later bound to an array
Float(x) == <<x>>

FloatOf(box) == box[1]

Unset == <<>>

\* ------------------------------------------------------------------------
\* The notebook run: the module-level names, and where the run stands
\* ------------------------------------------------------------------------

VARIABLES
    pc,             \* the statement to run next
    raised,         \* the exception that ended the run, or "none"
    lam, a, b, c, alpha, beta, gamma,
    M, Minv,
    a_star, b_star, c_star, alpha_star, beta_star, gamma_star,
    B,
    position_1, position_2, assignment_1, assignment_2,
    U, UB, invUB,
    it,             \* how many pairs the for loop has taken from zip
    p, predict,
    args, ret       \* a call of one function on its own: its arguments and what it returned

cellvars == <<lam, b, c, alpha, beta, gamma>>

starvars == <<a_star, b_star, c_star, alpha_star, beta_star, gamma_star>>

reflvars == <<position_1, position_2, assignment_1, assignment_2>>

loopvars == <<it, p, predict>>

computed == <<M, Minv, starvars, B, U, UB, invUB>>

callvars == <<args, ret>>

vars == <<pc, raised, cellvars, a, computed, reflvars, loopvars, callvars>>

NothingComputed ==
    /\ M = Unset /\ Minv = Unset
    /\ a_star = Unset /\ b_star = Unset /\ c_star = Unset
    /\ alpha_star = Unset /\ beta_star = Unset /\ gamma_star = Unset
    /\ B = Unset /\ U = Unset /\ UB = Unset /\ invUB = Unset
    /\ it = 0 /\ p = Unset /\ predict = Unset

\* cell 1, lines 26-33, and cell 4, lines 117-121
Init ==
    /\ pc = "M"
    /\ raised = "none"
    /\ \E cell \in Cells :
          /\ a = Float(cell[1])
          /\ b = cell[2]
          /\ c = cell[3]
          /\ alpha = cell[4]
          /\ beta = cell[5]
          /\ gamma = cell[6]
    /\ lam \in Lams
    /\ \E r1 \in Reflections, r2 \in Reflections :
          /\ position_1 = r1.position
          /\ assignment_1 = r1.assignment
          /\ position_2 = r2.position
          /\ assignment_2 = r2.assignment
    /\ NothingComputed
    /\ args = Unset /\ ret = Unset

\* M = np.array(...)
MetricTensor(a_, b_, c_, alpha_, beta_, gamma_) ==
    << <<Mul(a_, a_),                  Mul(Mul(a_, b_), cos(gamma_)), Mul(Mul(a_, c_), cos(beta_))>>,
       <<Mul(Mul(a_, b_), cos(gamma_)), Mul(b_, b_),                  Mul(Mul(b_, c_), cos(alpha_))>>,
       <<Mul(Mul(a_, c_), cos(beta_)),  Mul(Mul(b_, c_), cos(alpha_)), Mul(c_, c_)>> >>

Cell1_M ==
    /\ pc = "M"
    /\ M' = MetricTensor(FloatOf(a), b, c, alpha, beta, gamma)
    /\ pc' = "Minv"
    /\ UNCHANGED <<raised, cellvars, a, Minv, starvars, B, U, UB, invUB, reflvars, loopvars, callvars>>

\* Minv = (2*np.pi)**2*np.linalg.inv(M)
Cell1_Minv ==
    /\ pc = "Minv"
    /\ LET r == inv(M)
       IN  IF r.raised
           THEN /\ raised' = "LinAlgError"
                /\ pc' = "raised"
                /\ Minv' = Minv
           ELSE /\ Minv' = MatScale(r.value, Mul(2 * Pi, 2 * Pi))
                /\ pc' = "reciprocal"
                /\ raised' = raised
    /\ UNCHANGED <<cellvars, a, M, starvars, B, U, UB, invUB, reflvars, loopvars, callvars>>

\* a_star ... gamma_star
Cell1_Reciprocal ==
    /\ pc = "reciprocal"
    /\ a_star' = Sqrt(Minv[1][1])
    /\ b_star' = Sqrt(Minv[2][2])
    /\ c_star' = Sqrt(Minv[3][3])
    /\ alpha_star' = arccos(Div(Minv[2][3], Mul(b_star', c_star')))
    /\ beta_star' = arccos(Div(Minv[1][3], Mul(a_star', c_star')))
    /\ gamma_star' = arccos(Div(Minv[1][2], Mul(a_star', b_star')))
    /\ pc' = "B"
    /\ UNCHANGED <<raised, cellvars, a, M, Minv, B, U, UB, invUB, reflvars, loopvars, callvars>>

\* c_star in the bottom right corner
BMatrix_c_star(a_star_, b_star_, c_star_, beta_star_, gamma_star_, alpha_, c_) ==
    << <<a_star_, Mul(b_star_, cos(gamma_star_)), Mul(c_star_, cos(beta_star_))>>,
       <<0,       Mul(b_star_, sin(gamma_star_)), Mul(Neg(Mul(c_star_, sin(beta_star_))), cos(alpha_))>>,
       <<0,       0,                              c_star_>> >>

BMatrix(a_star_, b_star_, c_star_, beta_star_, gamma_star_, alpha_, c_) ==
    << <<a_star_, Mul(b_star_, cos(gamma_star_)), Mul(c_star_, cos(beta_star_))>>,
       <<0,       Mul(b_star_, sin(gamma_star_)), Mul(Neg(Mul(c_star_, sin(beta_star_))), cos(alpha_))>>,
       <<0,       0,                              Div(2 * Pi, c_)>> >>

Cell3_B ==
    /\ pc = "B"
    /\ B' = BMatrix(a_star, b_star, c_star, beta_star, gamma_star, alpha, c)
    /\ pc' = "U"
    /\ UNCHANGED <<raised, cellvars, a, M, Minv, starvars, U, UB, invUB, reflvars, loopvars, callvars>>

\* U = get_U(position_1, assignment_1, position_2, assignment_2, B, lam)
Cell4_U ==
    /\ pc = "U"
    /\ U' = get_U(position_1, assignment_1, position_2, assignment_2, B, lam)
    /\ pc' = "UB"
    /\ UNCHANGED <<raised, cellvars, a, M, Minv, starvars, B, UB, invUB, reflvars, loopvars, callvars>>

\* UB = np.matmul(U, B)
Cell4_UB ==
    /\ pc = "UB"
    /\ UB' = MatMul(U, B)
    /\ pc' = "invUB"
    /\ UNCHANGED <<raised, cellvars, a, M, Minv, starvars, B, U, invUB, reflvars, loopvars, callvars>>

\* invUB = np.linalg.inv(UB)
Cell4_invUB ==
    /\ pc = "invUB"
    /\ LET r == inv(UB)
       IN  IF r.raised
           THEN /\ raised' = "LinAlgError"
                /\ pc' = "raised"
                /\ invUB' = invUB
           ELSE /\ invUB' = r.value
                /\ pc' = "loop"
                /\ raised' = raised
    /\ UNCHANGED <<cellvars, a, M, Minv, starvars, B, U, UB, reflvars, loopvars, callvars>>

\* for p, a in zip([position_1, position_2], [assignment_1, assignment_2]):
\*     predict = get_HKL(p, invUB, lam)
\* The targets p and a are module-level names: the loop binds them.
Cell4_Loop ==
    /\ pc = "loop"
    /\ IF it < 2
       THEN /\ it' = it + 1
            /\ p' = (IF it = 0 THEN position_1 ELSE position_2)
            /\ a' = (IF it = 0 THEN assignment_1 ELSE assignment_2)
            /\ predict' = get_HKL(p', invUB, lam)
            /\ pc' = pc
       ELSE /\ pc' = "done"
            /\ UNCHANGED <<it, p, a, predict>>
    /\ UNCHANGED <<raised, cellvars, computed, reflvars, callvars>>

Next ==
    \/ Cell1_M
    \/ Cell1_Minv
    \/ Cell1_Reciprocal
    \/ Cell3_B
    \/ Cell4_U
    \/ Cell4_UB
    \/ Cell4_invUB
    \/ Cell4_Loop

Spec == Init /\ [][Next]_vars

\* ------------------------------------------------------------------------
\* What the notebook run is claimed to do
\* ------------------------------------------------------------------------

\* how far two reals that should be equal may lie apart, in millionths
Tol == 50

\* the measured and the assigned Cartesian vectors of the two reflections
q1 == angles2cart(position_1[1], position_1[2], position_1[3], position_1[4], lam)

q2 == angles2cart(position_2[1], position_2[2], position_2[3], position_2[4], lam)

c1 == MatVec(B, assignment_1)

c2 == MatVec(B, assignment_2)

IsZeroVec(v) == \A i \in Ix : v[i] = 0

\* neither vector is zero and their cross product is not zero
NonParallel(v, w) ==
    /\ VecFinite(v) /\ VecFinite(w)
    /\ ~IsZeroVec(v) /\ ~IsZeroVec(w) /\ ~IsZeroVec(Cross(v, w))

\* B is there and finite, and both pairs are non-zero and non-parallel
WellPosed ==
    /\ B # Unset
    /\ MatFinite(B)
    /\ NonParallel(q1, q2)
    /\ NonParallel(c1, c2)

\* get_U has returned
AfterU == U # Unset

Unit(v) == VecDiv(v, Norm(v))

\* C7: for well-posed input the U returned by get_U is a proper rotation:
\* det(U) = +1 and U.transpose(U) = I.
C7_ProperRotation ==
    (AfterU /\ WellPosed) =>
        /\ Near(Det(U), Scale, Tol)
        /\ MatNear(MatMul(U, Transpose(U)), Identity, Tol)

\* a U with no zero entry
C7_Witness ==
    /\ AfterU /\ WellPosed /\ MatFinite(U)
    /\ \A i \in Ix, j \in Ix : Abs(U[i][j]) > Tol

\* C8: for well-posed input U maps the direction of c1 = B.assignment_1 onto
\* the direction of q1 = angles2cart(position_1), whatever the second
\* reflection is, and the normal c1 x c2 onto the normal q1 x q2.
C8_FirstReflectionExact ==
    (AfterU /\ WellPosed) =>
        /\ VecNear(MatVec(U, Unit(c1)), Unit(q1), Tol)
        /\ VecNear(MatVec(U, Unit(Cross(c1, c2))), Unit(Cross(q1, q2)), Tol)

\* the two reflections disagree: U does not map c2's direction onto q2's
C8_Witness ==
    /\ AfterU /\ WellPosed /\ MatFinite(U)
    /\ ~VecNear(MatVec(U, Unit(c2)), Unit(q2), 1000 * Tol)
\* the tolerance of the round trip: 1e-3
HKLTol == 1000

\* how closely lengths and products must agree to count as equal
ConsistencyTol == 200

\* the inputs are the ones written in the notebook
IsNotebook ==
    /\ <<b, c, alpha, beta, gamma>> =
          <<NotebookCell[2], NotebookCell[3], NotebookCell[4], NotebookCell[5], NotebookCell[6]>>
    /\ M # Unset /\ M[1][1] = Mul(NotebookCell[1], NotebookCell[1])
    /\ lam = NotebookLam
    /\ position_1 = NotebookRefl1.position /\ assignment_1 = NotebookRefl1.assignment
    /\ position_2 = NotebookRefl2.position /\ assignment_2 = NotebookRefl2.assignment

\* the measured vectors have the lengths and the mutual angle of the assigned ones
Consistent ==
    /\ Near(Norm(q1), Norm(c1), ConsistencyTol)
    /\ Near(Norm(q2), Norm(c2), ConsistencyTol)
    /\ Near(Dot(q1, q2), Dot(c1, c2), ConsistencyTol)

\* C1 as claimed: with U, UB and invUB built from the two reflections,
\* get_HKL(position_i, invUB, lam) returns assignment_i for i = 1 and i = 2
\* (the loop's predict against the loop's a, to within 1e-3).
C1_RoundTrip ==
    (it >= 1 /\ WellPosed) => VecNear(predict, a, HKLTol)

\* C1 as amended: get_HKL(position_1, invUB, lam) is assignment_1 scaled by
\* |q1|/|c1|; get_HKL returns assignment_i for both i when the measured
\* vectors have the lengths and the mutual angle of the assigned ones, as they
\* have for the notebook's cell, wavelength and reflections, to within 1e-3.
C1_RoundTripWhenConsistent ==
    (it >= 1 /\ WellPosed) =>
        /\ it = 1 => VecNear(predict, VecScale(assignment_1, Div(Norm(q1), Norm(c1))), HKLTol)
        /\ Consistent => VecNear(predict, a, HKLTol)
        /\ IsNotebook => VecNear(predict, a, HKLTol)

\* the notebook's run, after the second prediction
C1_Witness ==
    /\ pc = "done" /\ it = 2
    /\ IsNotebook /\ WellPosed /\ Consistent
    /\ a = NotebookRefl2.assignment
    /\ VecNear(predict, NotebookRefl2.assignment, HKLTol)
    /\ predict # NotebookRefl2.assignment

\* C2 as claimed: when the two reflections are parallel in their space, or
\* one of the four vectors is zero, the orientation step fails with
\* ParallelVectorsError and no U, UB or invUB value is returned.
C2_ParallelReflectionsRaise ==
    (B # Unset /\ MatFinite(B) /\ ~(NonParallel(q1, q2) /\ NonParallel(c1, c2))
     /\ pc \notin {"U"}) =>
        /\ pc = "raised"
        /\ raised # "none"
        /\ U = Unset /\ UB = Unset /\ invUB = Unset

\* 1 + 2 cos(alpha)cos(beta)cos(gamma) - cos(alpha)^2 - cos(beta)^2 - cos(gamma)^2:
\* det M / (a b c)^2
GramDet ==
    Sub(Add(Scale, 2 * Mul(Mul(cos(alpha), cos(beta)), cos(gamma))),
        Sum3(Mul(cos(alpha), cos(alpha)), Mul(cos(beta), cos(beta)), Mul(cos(gamma), cos(gamma))))

\* M is positive definite: positive squared lengths and a positive determinant
PositiveDefinite == M[1][1] > 0 /\ M[2][2] > 0 /\ M[3][3] > 0 /\ GramDet > 0

\* C3 as claimed: the unit-cell computation fails with DegenerateCellError and
\* yields no reciprocal constants whenever M is singular or not positive
\* definite, in particular when alpha = beta = gamma = 0.
C3_DegenerateCellRaises ==
    (pc \notin {"M", "Minv"} /\ M # Unset /\ ~PositiveDefinite) =>
        /\ pc = "raised"
        /\ raised # "none"
        /\ a_star = Unset /\ b_star = Unset /\ c_star = Unset
        /\ alpha_star = Unset /\ beta_star = Unset /\ gamma_star = Unset

\* C9: B is upper-triangular for every unit cell, with
\* row0 = [a*, b*cos(gamma*), c*cos(beta*)],
\* row1 = [0, b*sin(gamma*), -c*sin(beta*)cos(alpha)] with the direct alpha,
\* and 2 pi/c in the bottom right corner, c the direct length and not c*.
C9_BUpperTriangular ==
    (B # Unset) =>
        /\ B[2][1] = 0 /\ B[3][1] = 0 /\ B[3][2] = 0
        /\ B[1][1] = a_star
        /\ B[1][2] = Mul(b_star, cos(gamma_star))
        /\ B[1][3] = Mul(c_star, cos(beta_star))
        /\ B[2][2] = Mul(b_star, sin(gamma_star))
        /\ B[2][3] = Mul(Neg(Mul(c_star, sin(beta_star))), cos(alpha))
        /\ B[3][3] = Div(2 * Pi, c)
        /\ MatFinite(B) => Near(Mul(B[3][3], c), 2 * Pi, Tol)

\* the notebook's monoclinic cell: 2 pi/c is not c*, and B is not diagonal
C9_Witness ==
    /\ B # Unset /\ MatFinite(B)
    /\ beta = NotebookCell[5]
    /\ ~Near(B[3][3], c_star, 100 * Tol)
    /\ B[1][3] # 0

\* C10 as claimed, for the notebook's own inputs: values are constructed once
\* and never changed afterwards: a, b, c, alpha, beta, gamma, lam, B, U, UB
\* and invUB keep the values they had when first computed, through the
\* verification loop too, and every get_HKL call reuses the one invUB.
C10_ValuesNeverChange ==
    [][IsNotebook =>
        /\ a' = a
        /\ cellvars' = cellvars
        /\ (B # Unset => B' = B)
        /\ (U # Unset => U' = U)
        /\ (UB # Unset => UB' = UB)
        /\ (invUB # Unset => invUB' = invUB)
        /\ (predict' # predict => (invUB # Unset /\ invUB' = invUB))]_vars

\* ------------------------------------------------------------------------
\* angles2cart called on its own, over a grid of angles and wavelengths
\* ------------------------------------------------------------------------

MaxTth == 4
MaxTh == 3
MaxChi == 3
MaxPhi == 3

TthGrid == { Deg(50 * k) : k \in 0..MaxTth }

ThGrid == { Deg(35 * k) : k \in -1..MaxTh }

ChiGrid == { Deg(45 * k) : k \in 0..MaxChi }

PhiGrid == { Deg(80 * k - 20) : k \in 0..MaxPhi }

LamGrid == { 0, NotebookLam, Real(2), -Fx(1, 500000) }

NotebookIdle ==
    /\ raised = "none"
    /\ a = Unset /\ b = Unset /\ c = Unset
    /\ alpha = Unset /\ beta = Unset /\ gamma = Unset
    /\ position_1 = Unset /\ position_2 = Unset
    /\ assignment_1 = Unset /\ assignment_2 = Unset
    /\ NothingComputed

Init_angles2cart ==
    /\ pc = "call angles2cart"
    /\ args \in TthGrid \X ThGrid \X ChiGrid \X PhiGrid
    /\ lam \in LamGrid
    /\ ret = Unset
    /\ NotebookIdle

Call_angles2cart ==
    /\ pc = "call angles2cart"
    /\ ret' = angles2cart(args[1], args[2], args[3], args[4], lam)
    /\ pc' = "returned"
    /\ UNCHANGED <<raised, cellvars, a, computed, reflvars, loopvars, args>>

Spec_angles2cart == Init_angles2cart /\ [][Call_angles2cart]_vars

\* C4 as claimed: angles2cart fails with InvalidWavelengthError when lam is
\* zero and returns no vector then; for a nonzero lam it returns a vector
\* without error.
C4_ZeroLamRaises ==
    /\ (lam = 0 /\ pc = "returned") => (raised # "none" /\ ret = Unset)
    /\ (lam # 0 /\ pc = "returned") => (raised = "none" /\ VecFinite(ret))

\* C5: for a nonzero lam the norm of what angles2cart returns is
\* |4 pi sin(tth/2) / lam|, whatever th, chi and phi are, and the inner vector
\* built from omega, chi and phi has unit length.
C5_NormOfAngles2cart ==
    (pc = "returned" /\ lam # 0) =>
        /\ Near(Norm(ret), Abs(Div(Mul(4 * Pi, sin(args[1] \div 2)), lam)), Tol)
        /\ Near(Norm(q_carterian_unit_vector(args[1], args[2], args[3], args[4])), Scale, Tol)

\* a returned vector off every axis, from angles off every axis
C5_Witness ==
    /\ pc = "returned"
    /\ lam = NotebookLam
    /\ \A i \in Ix : Abs(ret[i]) > Scale
    /\ \A d \in {args[2] - args[1] \div 2, args[3], args[4]} : sin(d) # 0 /\ cos(d) # 0

\* ------------------------------------------------------------------------
\* get_T_mat called on its own, over a grid of vector pairs
\* ------------------------------------------------------------------------

MaxComponent == 1

VecGrid ==
    { <<Mul(Real(x), Fx(1, 300000)), Mul(Real(y), Fx(1, 300000)), Mul(Real(z), Fx(1, 300000))>> :
        x \in -MaxComponent..MaxComponent,
        y \in -MaxComponent..MaxComponent,
        z \in -MaxComponent..MaxComponent }

Init_get_T_mat ==
    /\ pc = "call get_T_mat"
    /\ args \in VecGrid \X VecGrid
    /\ lam = Unset
    /\ ret = Unset
    /\ NotebookIdle

Call_get_T_mat ==
    /\ pc = "call get_T_mat"
    /\ ret' = get_T_mat(args[1], args[2])
    /\ pc' = "returned"
    /\ UNCHANGED <<raised, cellvars, a, computed, reflvars, loopvars, args>>

Spec_get_T_mat == Init_get_T_mat /\ [][Call_get_T_mat]_vars

\* C6: for non-zero, non-parallel vec1 and vec2 the columns of
\* T = get_T_mat(vec1, vec2) are t1 = vec1/|vec1|, t2 = t3 x t1 and
\* t3 = (vec1 x vec2)/|vec1 x vec2|, and transpose(T).T = I.
C6_TriadOrthonormal ==
    (pc = "returned" /\ NonParallel(args[1], args[2])) =>
        LET t1 == Column(ret, 1)
            t2 == Column(ret, 2)
            t3 == Column(ret, 3)
            cross == Cross(args[1], args[2])
        IN  /\ VecNear(VecScale(t1, Norm(args[1])), args[1], Tol)
            /\ VecNear(VecScale(t3, Norm(cross)), cross, Tol)
            /\ VecNear(t2, Cross(t3, t1), Tol)
            /\ MatNear(MatMul(Transpose(ret), ret), Identity, Tol)

\* a triad from two vectors that are neither parallel nor orthogonal
C6_Witness ==
    /\ pc = "returned"
    /\ NonParallel(args[1], args[2])
    /\ Dot(args[1], args[2]) # 0
    /\ MatFinite(ret)
    /\ \A i \in Ix : ret[i][2] # 0
====
